---- MODULE Spec2Model ----
(***************************************************************************)
(* A model of python/xrelfo.py, the FRR ELF xref extractor: the Xrelfo     *)
(* store, the kind handlers that contribute to it, the file sniffing and   *)
(* pointer-table discovery of load_file / load_elf, the snapshot merge of  *)
(* load_json, and the batch driver main().                                 *)
(*                                                                         *)
(* Python values are modelled as follows.  A dict whose iteration order is *)
(* observed (xrelfo['refs']) is a record [keys, val]: keys is the          *)
(* insertion order, val the mapping.  Every other dict is a function on    *)
(* strings.  A list is a sequence.  None is NoNote / NoSection / a missing *)
(* key, depending on where the code tests for it.                          *)
(***************************************************************************)
EXTENDS Integers, Sequences, FiniteSets, TLC

VARIABLES env, binaries, idx, xrelfo, xrefs, errors, pc, printed, counts,
          outbyfile, written, exitcode

vars == <<env, binaries, idx, xrelfo, xrefs, errors, pc, printed, counts,
          outbyfile, written, exitcode>>

----------------------------------------------------------------------------
(* Bounds of the model. *)

\* longest command line (number of BINARY arguments) explored
MaxInputs == 3
\* largest packed priority value explored by SpecPrio
MaxPriority == 255

----------------------------------------------------------------------------
(* Constants of the program. *)

XREFT_THREADSCHED == 256
XREFT_LOGMSG == 512
XREFT_DEFUN == 768
XREFT_INSTALL_ELEMENT == 769

----------------------------------------------------------------------------
(* Python built-ins the code relies on. *)

RECURSIVE BitAnd(_, _)
\* int.__and__ on non-negative integers
BitAnd(a, b) ==
  IF a = 0 \/ b = 0 THEN 0
  ELSE (a % 2) * (b % 2) + 2 * BitAnd(a \div 2, b \div 2)

\* the empty dict {} as a mapping
EmptyMap == [k \in {} |-> 0]

\* the empty insertion-ordered dict
EmptyDict == [keys |-> <<>>, val |-> EmptyMap]

\* d[k] = v on a plain mapping
MapPut(m, k, v) == [x \in DOMAIN m \cup {k} |-> IF x = k THEN v ELSE m[x]]

\* dict.update(other) on a plain mapping
MapUpdate(m, other) ==
  [x \in DOMAIN m \cup DOMAIN other |-> IF x \in DOMAIN other THEN other[x] ELSE m[x]]

\* del d[k]
MapDel(m, k) == [x \in DOMAIN m \ {k} |-> m[x]]

\* dict.setdefault(k, v) on an insertion-ordered dict: the dict afterwards
DictSetDefault(d, k, v) ==
  IF k \in DOMAIN d.val THEN d
  ELSE [keys |-> Append(d.keys, k), val |-> MapPut(d.val, k, v)]

\* x in list
InList(x, s) == \E i \in 1..Len(s) : s[i] = x

\* dict([(i, getattr(xref, i)) for i in ['file', 'line', 'func']])
Origin(x) == [file |-> x.file, line |-> x.line, func |-> x.func]

----------------------------------------------------------------------------
(* Decoded records.  A record of the universe is what ELFDissectStruct      *)
(* yields for one pointer slot: the generic xref fields (typ, file, line,   *)
(* func, xrefdata) together with the fields of its container struct.        *)

\* clippy.uidhash.uidhash: a deterministic token of its four arguments
uidhash(file, hashstr, hashu32_0, hashu32_1) == <<file, hashstr, hashu32_0, hashu32_1>>

\* Xrefdata.uid (every record of the universe carries a hash string)
Xrefdata_uid(x) ==
  uidhash(x.file, x.xrefdata.hashstr, x.xrefdata.hashu32_0, x.xrefdata.hashu32_1)

\* CmdElement.cmd_attrs; None is the string "None"
cmd_attrs == (0 :> "None") @@ (1 :> "deprecated") @@ (2 :> "hidden")

\* CmdElement.__init__: self.dict_nodes = []
CmdElement_init(x) == x @@ [dict_nodes |-> <<>>]

\* variant of XrefLogmsg_flags with the two flag bits exchanged
XrefLogmsg_flags_wrong(x, jsobj) ==
  LET j1 == IF BitAnd(x.priority, 32) # 0
            THEN MapPut(jsobj, "flags", <<"errno">>) ELSE jsobj
  IN IF BitAnd(x.priority, 16) # 0
     THEN MapPut(j1, "flags",
                 Append(IF "flags" \in DOMAIN j1 THEN j1.flags ELSE <<>>, "getaddrinfo"))
     ELSE j1

\* XrefLogmsg.to_dict, the two jsobj.setdefault('flags', []).append(...)
XrefLogmsg_flags(x, jsobj) ==
  LET j1 == IF BitAnd(x.priority, 16) # 0
            THEN MapPut(jsobj, "flags", <<"errno">>) ELSE jsobj
  IN IF BitAnd(x.priority, 32) # 0
     THEN MapPut(j1, "flags",
                 Append(IF "flags" \in DOMAIN j1 THEN j1.flags ELSE <<>>, "getaddrinfo"))
     ELSE j1

\* XrefLogmsg.to_dict: the occurrence descriptor it builds
XrefLogmsg_jsobj(x) ==
  LET j0 == Origin(x)
      j1 == IF x.ec # 0 THEN MapPut(j0, "ec", x.ec) ELSE j0
      j2 == MapPut(j1, "fmtstring", x.fmtstring)
      j3 == MapPut(j2, "priority", BitAnd(x.priority, 7))
      j4 == MapPut(j3, "type", "logmsg")
  IN XrefLogmsg_flags(x, j4)

\* XrefLogmsg.to_dict: xrelfo['refs'].setdefault(uid, []).append(jsobj)
XrefLogmsg_to_dict(x, store) ==
  LET uid == Xrefdata_uid(x)
      refs == DictSetDefault(store.refs, uid, <<>>)
  IN MapPut(store, "refs",
            [refs EXCEPT !.val[uid] = Append(@, XrefLogmsg_jsobj(x))])

\* xrelfo.setdefault('cli', {}): the store afterwards
WithCli(store) == IF "cli" \in DOMAIN store THEN store ELSE MapPut(store, "cli", EmptyMap)

\* cli.setdefault(name, {}): the descriptor found or created
CliEntry(store, name) ==
  IF name \in DOMAIN WithCli(store).cli THEN WithCli(store).cli[name] ELSE EmptyMap

\* CmdElement.to_dict
CmdElement_to_dict(x, store) ==
  LET j1 == MapUpdate(CliEntry(store, x.name),
                      [string |-> x.string, doc |-> x.doc,
                       attr |-> IF x.attr \in DOMAIN cmd_attrs THEN cmd_attrs[x.attr] ELSE x.attr,
                       nodes |-> x.dict_nodes])
      j2 == IF j1.attr = "None" THEN MapDel(j1, "attr") ELSE j1
      j3 == MapPut(j2, "defun", Origin(x))
  IN MapPut(WithCli(store), "cli", MapPut(WithCli(store).cli, x.name, j3))

\* XrefInstallElement.to_dict
XrefInstallElement_to_dict(x, store) ==
  LET name == x.cmd_element.name
      jsobj == CliEntry(store, name)
      nodes == IF "nodes" \in DOMAIN jsobj THEN jsobj.nodes ELSE <<>>
      entry == [node |-> x.node_type, install |-> Origin(x)]
  IN MapPut(WithCli(store), "cli",
            MapPut(WithCli(store).cli, name, MapPut(jsobj, "nodes", Append(nodes, entry))))

\* Xref.containers, as filled at import time
containers == {XREFT_THREADSCHED, XREFT_LOGMSG, XREFT_DEFUN, XREFT_INSTALL_ELEMENT}

\* load_elf's loop body after self._xrefs.append: container() and to_dict
\* (XrefThreadSched inherits XrelfoJson.to_dict, which does nothing)
container_to_dict(x, store) ==
  IF x.typ \notin containers THEN store
  ELSE CASE x.typ = XREFT_LOGMSG -> XrefLogmsg_to_dict(x, store)
         [] x.typ = XREFT_DEFUN -> CmdElement_to_dict(CmdElement_init(x), store)
         [] x.typ = XREFT_INSTALL_ELEMENT -> XrefInstallElement_to_dict(x, store)
         [] OTHER -> store

----------------------------------------------------------------------------
(* Files.  A path is [dir, name, ext]: the directory components, the file   *)
(* name without its last suffix, and that suffix.  A file system maps the   *)
(* paths that exist to their content: hdr is what fd.read(4) returns; an    *)
(* ELF image has its class, byte order, XREF note, xref_array section and,  *)
(* per file offset of a pointer slot, the record the slot points to; a JSON *)
(* file has the document json.load parses.                                  *)

\* b'\x7fELF'
ELFMAG == <<"0x7f", "E", "L", "F">>

NoNote == [found |-> FALSE]
NoSection == [found |-> FALSE]

\* hdr[:n]
Prefix(hdr, n) == SubSeq(hdr, 1, IF n < Len(hdr) THEN n ELSE Len(hdr))

RECURSIVE FromBytes(_, _)
\* int.from_bytes(bytes, 'little' | 'big')
FromBytes(bytes, bigendian) ==
  IF bytes = <<>> THEN 0
  ELSE IF bigendian
       THEN bytes[Len(bytes)] + 256 * FromBytes(SubSeq(bytes, 1, Len(bytes) - 1), bigendian)
       ELSE bytes[1] + 256 * FromBytes(Tail(bytes), bigendian)

\* struct.unpack(endian + 'QQ' | 'II', mem); ok is FALSE where it raises struct.error
struct_unpack(bigendian, width, mem) ==
  IF Len(mem) # 2 * width THEN [ok |-> FALSE]
  ELSE [ok |-> TRUE,
        start |-> FromBytes(SubSeq(mem, 1, width), bigendian),
        end |-> FromBytes(SubSeq(mem, width + 1, 2 * width), bigendian)]

RECURSIVE iter_data(_, _, _)
\* iter_data(XrefPtr, slice(start, end)): the offsets of the pointer slots
iter_data(start, end, width) ==
  IF start + width > end THEN <<>>
  ELSE <<start>> \o iter_data(start + width, end, width)

\* variant of load_elf_table whose note range lacks the trailing word
load_elf_table_no_word(edf) ==
  IF edf.note.found
  THEN LET width == IF edf.elfclass = 64 THEN 8 ELSE 4
           u == struct_unpack(edf.bigendian, width, edf.note.mem)
       IN IF ~u.ok THEN [ok |-> FALSE]
          ELSE [ok |-> TRUE, width |-> width,
                start |-> u.start + edf.note.start,
                end |-> u.end + edf.note.start]
  ELSE IF ~edf.xref_array.found THEN [ok |-> FALSE]
       ELSE [ok |-> TRUE, width |-> IF edf.elfclass = 64 THEN 8 ELSE 4,
             start |-> edf.xref_array.start,
             end |-> edf.xref_array.start + edf.xref_array.size]

\* load_elf, up to ptrs = ...: the byte range of the pointer table, or the
\* failure (struct.error, or ValueError when there is neither note nor section)
load_elf_table(edf) ==
  IF edf.note.found
  THEN IF edf.elfclass = 64
       THEN LET u == struct_unpack(edf.bigendian, 8, edf.note.mem)
            IN IF ~u.ok THEN [ok |-> FALSE]
               ELSE [ok |-> TRUE, width |-> 8,
                     start |-> u.start + edf.note.start,
                     end |-> u.end + edf.note.start + 8]
       ELSE LET u == struct_unpack(edf.bigendian, 4, edf.note.mem)
            IN IF ~u.ok THEN [ok |-> FALSE]
               ELSE [ok |-> TRUE, width |-> 4,
                     start |-> u.start + edf.note.start,
                     end |-> u.end + edf.note.start + 4]
  ELSE IF ~edf.xref_array.found THEN [ok |-> FALSE]
       ELSE [ok |-> TRUE, width |-> IF edf.elfclass = 64 THEN 8 ELSE 4,
             start |-> edf.xref_array.start,
             end |-> edf.xref_array.start + edf.xref_array.size]

RECURSIVE load_elf_loop(_, _, _, _)
\* load_elf, for ptr in ptrs: a slot that cannot be dereferenced raises, and
\* what the slots before it contributed stays in the store
load_elf_loop(edf, slots, store, seen) ==
  IF slots = <<>> THEN [ok |-> TRUE, store |-> store, xrefs |-> seen]
  ELSE IF Head(slots) \notin DOMAIN edf.ptrs
       THEN [ok |-> FALSE, store |-> store, xrefs |-> seen]
       ELSE LET x == edf.ptrs[Head(slots)]
            IN load_elf_loop(edf, Tail(slots), container_to_dict(x, store), Append(seen, x))

\* Xrelfo.load_elf
load_elf(edf, store, seen) ==
  LET t == load_elf_table(edf)
  IN IF ~t.ok THEN [ok |-> FALSE, store |-> store, xrefs |-> seen]
     ELSE load_elf_loop(edf, iter_data(t.start, t.end, t.width), store, seen)

RECURSIVE load_json_items_no_dedup(_, _)
\* variant of load_json_items without the "if item in myitems: continue"
load_json_items_no_dedup(myitems, items) ==
  IF items = <<>> THEN myitems
  ELSE load_json_items_no_dedup(Append(myitems, Head(items)), Tail(items))

RECURSIVE load_json_items(_, _)
\* load_json, for item in items
load_json_items(myitems, items) ==
  IF items = <<>> THEN myitems
  ELSE load_json_items(IF InList(Head(items), myitems) THEN myitems
                       ELSE Append(myitems, Head(items)),
                       Tail(items))

RECURSIVE load_json_refs_replace(_, _, _)
\* variant of load_json_refs that replaces an identity's list by the source's
load_json_refs_replace(refs, keys, data_refs) ==
  IF keys = <<>> THEN refs
  ELSE LET uid == Head(keys)
           r1 == DictSetDefault(refs, uid, <<>>)
           r2 == [r1 EXCEPT !.val[uid] = load_json_items(<<>>, data_refs.val[uid])]
       IN load_json_refs_replace(r2, Tail(keys), data_refs)

RECURSIVE load_json_refs(_, _, _)
\* load_json, for uid, items in data['refs'].items()
load_json_refs(refs, keys, data_refs) ==
  IF keys = <<>> THEN refs
  ELSE LET uid == Head(keys)
           r1 == DictSetDefault(refs, uid, <<>>)
           r2 == [r1 EXCEPT !.val[uid] = load_json_items(@, data_refs.val[uid])]
       IN load_json_refs(r2, Tail(keys), data_refs)

\* Xrelfo.load_json on the parsed document; KeyError when it has no 'refs'
load_json(data, store) ==
  IF "refs" \notin DOMAIN data THEN [ok |-> FALSE, store |-> store]
  ELSE [ok |-> TRUE,
        store |-> MapPut(store, "refs",
                         load_json_refs(store.refs, data.refs.keys, data.refs))]

\* load_file: os.path.join(path, '.libs', name + '.so') for a '.la' argument
LaTarget(filename) ==
  IF filename.ext = "la"
  THEN [dir |-> Append(filename.dir, ".libs"), name |-> filename.name, ext |-> "so"]
  ELSE filename

RECURSIVE load_file_loop(_, _, _, _)
\* load_file, the while True loop; open() raises when the path does not exist
load_file_loop(files, filename, store, seen) ==
  IF filename \notin DOMAIN files THEN [ok |-> FALSE, store |-> store, xrefs |-> seen]
  ELSE LET f == files[filename]
       IN IF f.hdr = ELFMAG THEN load_elf(f, store, seen)
          ELSE IF Prefix(f.hdr, 2) = <<"#", "!">>
          THEN load_file_loop(files, [filename EXCEPT !.dir = Append(@, ".libs")], store, seen)
          ELSE IF Prefix(f.hdr, 1) = <<"{">>
          THEN IF ~f.json.valid THEN [ok |-> FALSE, store |-> store, xrefs |-> seen]
               ELSE LET r == load_json(f.json.doc, store)
                    IN [ok |-> r.ok, store |-> r.store, xrefs |-> seen]
          ELSE [ok |-> FALSE, store |-> store, xrefs |-> seen]

\* Xrelfo.load_file
load_file(files, filename, store, seen) ==
  load_file_loop(files, LaTarget(filename), store, seen)

----------------------------------------------------------------------------
(* main(): the consistency check, the by-file view and the outputs. *)

\* the strings of the model in Python's str order
StrOrder == <<"a.c", "b.c", "c.c", "h1", "h2", "h3">>

StrRank(str) == CHOOSE i \in 1..Len(StrOrder) : StrOrder[i] = str

\* uid1 < uid2 for two tokens of uidhash
KeyLess(k1, k2) ==
  \/ StrRank(k1[1]) < StrRank(k2[1])
  \/ k1[1] = k2[1] /\ StrRank(k1[2]) < StrRank(k2[2])

RECURSIVE SortKeys(_)
\* sorted(keys)
SortKeys(keys) ==
  IF keys = <<>> THEN <<>>
  ELSE LET rest == SortKeys(Tail(keys))
           lo == SelectSeq(rest, LAMBDA k : KeyLess(k, Head(keys)))
           hi == SelectSeq(rest, LAMBDA k : ~KeyLess(k, Head(keys)))
       IN lo \o <<Head(keys)>> \o hi

\* json.dump(out, fd, indent=2, sort_keys=True): the document written
json_dump(out) ==
  [k \in DOMAIN out |->
     IF k = "refs" THEN [keys |-> SortKeys(out.refs.keys), val |-> out.refs.val]
     ELSE out[k]]

\* set([i['fmtstring'] for i in v])
FmtStrings(v) == {v[i].fmtstring : i \in 1..Len(v)}

\* main, for k, v in refs.items(): the identities printed, in order
check_refs(refs) ==
  SelectSeq(refs.keys, LAMBDA k : Cardinality(FmtStrings(refs.val[k])) # 1)

\* outbyfile.setdefault(loc['file'], []).append(loc minus 'file')
ByFileAdd(obf, loc) ==
  MapPut(obf, loc.file,
         Append(IF loc.file \in DOMAIN obf THEN obf[loc.file] ELSE <<>>, MapDel(loc, "file")))

RECURSIVE ByFileLocs(_, _)
\* main, for loc in locs
ByFileLocs(obf, locs) ==
  IF locs = <<>> THEN obf ELSE ByFileLocs(ByFileAdd(obf, Head(locs)), Tail(locs))

RECURSIVE ByFileUids(_, _, _)
\* main, for uid, locs in refs.items()
ByFileUids(obf, keys, refs) ==
  IF keys = <<>> THEN obf
  ELSE ByFileUids(ByFileLocs(obf, refs.val[Head(keys)]), Tail(keys), refs)

RECURSIVE sorted_by_line(_)
\* sorted(list, key=lambda x: x['line']): stable
sorted_by_line(list) ==
  IF list = <<>> THEN <<>>
  ELSE LET x == list[Len(list)]
           front == sorted_by_line(SubSeq(list, 1, Len(list) - 1))
       IN SelectSeq(front, LAMBDA y : y.line <= x.line) \o <<x>>
          \o SelectSeq(front, LAMBDA y : y.line > x.line)

\* variant of build_outbyfile without the per-file sort
build_outbyfile_unsorted(refs) == ByFileUids(EmptyMap, refs.keys, refs)

\* main, outbyfile as built and then sorted per file
build_outbyfile(refs) ==
  LET obf == ByFileUids(EmptyMap, refs.keys, refs)
  IN [f \in DOMAIN obf |-> sorted_by_line(obf[f])]

\* Xrelfo.__init__
EmptyStore == [refs |-> EmptyDict]


----------------------------------------------------------------------------
(* The inputs explored: records as the FRR macros emit them, ELF images     *)
(* laid out around them, snapshots, and files that cannot be loaded.        *)

LOG(file, line, func, hashstr, ec, fmtstring, priority) ==
  [typ |-> XREFT_LOGMSG, file |-> file, line |-> line, func |-> func,
   xrefdata |-> [hashstr |-> hashstr, hashu32_0 |-> 0, hashu32_1 |-> 0],
   ec |-> ec, fmtstring |-> fmtstring, priority |-> priority]

DEFUN(file, line, func, name, string, doc, attr) ==
  [typ |-> XREFT_DEFUN, file |-> file, line |-> line, func |-> func,
   name |-> name, string |-> string, doc |-> doc, attr |-> attr]

INSTALL(file, line, func, name, node_type) ==
  [typ |-> XREFT_INSTALL_ELEMENT, file |-> file, line |-> line, func |-> func,
   cmd_element |-> [name |-> name], node_type |-> node_type]

Lx1 == LOG("a.c", 20, "f", "h1", 0, "m1", 22)
Lx2 == LOG("a.c", 10, "g", "h1", 5, "m2", 3)
Lx3 == LOG("b.c", 10, "f", "h2", 0, "m1", 37)
D1 == DEFUN("c.c", 5, "show_version", "show version", "show version", "doc", 0)
D2 == DEFUN("c.c", 7, "show_version", "show version", "show version", "doc", 2)
I1 == INSTALL("c.c", 30, "init", "show version", 1)
I2 == INSTALL("c.c", 31, "init", "show version", 2)
T1 == [typ |-> XREFT_THREADSCHED, file |-> "a.c", line |-> 40, func |-> "f"]
U1 == [typ |-> 0, file |-> "a.c", line |-> 41, func |-> "f"]

RECURSIVE ToBytes(_, _, _)
\* the bytes of value v in width bytes, as the linker writes them
ToBytes(v, width, bigendian) ==
  IF width = 0 THEN <<>>
  ELSE IF bigendian THEN ToBytes(v \div 256, width - 1, bigendian) \o <<v % 256>>
       ELSE <<v % 256>> \o ToBytes(v \div 256, width - 1, bigendian)

\* the note payload holding (start, end)
NoteMem(start, end, width, bigendian) ==
  ToBytes(start, width, bigendian) \o ToBytes(end, width, bigendian)

Width(elfclass) == IF elfclass = 64 THEN 8 ELSE 4

\* an image whose XREF note, at offset 16, describes the table xs right after it
NoteElf(elfclass, bigendian, xs) ==
  LET w == Width(elfclass)
  IN [hdr |-> ELFMAG, elfclass |-> elfclass, bigendian |-> bigendian,
      note |-> [found |-> TRUE, start |-> 16,
                mem |-> NoteMem(2 * w, (Len(xs) + 1) * w, w, bigendian)],
      xref_array |-> NoSection,
      ptrs |-> [a \in {16 + (i + 1) * w : i \in 1..Len(xs)} |-> xs[((a - 16) \div w) - 1]]]

\* an image without note whose xref_array section, at offset 64, declares
\* nslots slots, of which the first Len(xs) can be dereferenced
SectionElf(elfclass, bigendian, xs, nslots) ==
  LET w == Width(elfclass)
  IN [hdr |-> ELFMAG, elfclass |-> elfclass, bigendian |-> bigendian,
      note |-> NoNote,
      xref_array |-> [found |-> TRUE, start |-> 64, size |-> nslots * w],
      ptrs |-> [a \in {64 + (i - 1) * w : i \in 1..Len(xs)} |-> xs[((a - 64) \div w) + 1]]]

Path(name, ext) == [dir |-> <<>>, name |-> name, ext |-> ext]

\* an occurrence descriptor as it stands in a snapshot
Occ(file, line, func, fmtstring, priority) ==
  [file |-> file, line |-> line, func |-> func, fmtstring |-> fmtstring,
   priority |-> priority, type |-> "logmsg"]

Uid1 == uidhash("a.c", "h1", 0, 0)
Uid2 == uidhash("b.c", "h2", 0, 0)
Uid3 == uidhash("b.c", "h3", 0, 0)

JsonFile(doc) == [hdr |-> <<"{", "\n", " ", " ">>, json |-> [valid |-> TRUE, doc |-> doc]]

\* a snapshot of an earlier run over a.c and b.c
OldSnapshot ==
  [refs |-> [keys |-> <<Uid1, Uid2>>,
             val |-> (Uid1 :> <<Occ("a.c", 20, "f", "m1", 6) @@ [flags |-> <<"errno">>],
                                Occ("a.c", 30, "h", "m1", 6)>>)
                     @@ (Uid2 :> <<Occ("b.c", 10, "f", "m1", 5) @@ [flags |-> <<"getaddrinfo">>]>>)],
   cli |-> EmptyMap]

\* a snapshot with a repeated descriptor and an identity without occurrences
EditedSnapshot ==
  [refs |-> [keys |-> <<Uid3, Uid1>>,
             val |-> (Uid3 :> <<>>)
                     @@ (Uid1 :> <<Occ("a.c", 10, "g", "m2", 3) @@ [ec |-> 5],
                                   Occ("a.c", 10, "g", "m2", 3) @@ [ec |-> 5]>>)]]

\* the file system of the batch runs
FS ==
  (Path("zebra", "") :> NoteElf(64, FALSE, <<Lx1, D1, I1>>))
  @@ (Path("bgpd", "") :> SectionElf(32, TRUE, <<I2, D2, Lx2, T1, U1>>, 5))
  @@ ([dir |-> <<".libs">>, name |-> "lib", ext |-> "so"] :> NoteElf(32, TRUE, <<Lx1, Lx3>>))
  @@ (Path("vtysh", "") :> [hdr |-> <<"#", "!", " ", "/">>])
  @@ ([dir |-> <<".libs">>, name |-> "vtysh", ext |-> ""] :> SectionElf(64, FALSE, <<Lx3>>, 2))
  @@ (Path("stripped", "") :>
        [hdr |-> ELFMAG, elfclass |-> 64, bigendian |-> FALSE, note |-> NoNote,
         xref_array |-> NoSection, ptrs |-> EmptyMap])
  @@ (Path("README", "") :> [hdr |-> <<"F", "R", "R", "\n">>])
  @@ (Path("old", "json") :> JsonFile(OldSnapshot))
  @@ (Path("edited", "json") :> JsonFile(EditedSnapshot))
  @@ (Path("cli", "json") :> JsonFile([cli |-> EmptyMap]))

\* the arguments, listed once each
ArgSeq ==
  <<Path("zebra", ""), Path("bgpd", ""), Path("lib", "la"), Path("vtysh", ""),
    Path("stripped", ""), Path("README", ""), Path("old", "json"),
    Path("edited", "json"), Path("cli", "json"), Path("gone", "")>>

\* the BINARY arguments a command line is made of
Args == {ArgSeq[i] : i \in 1..Len(ArgSeq)}

ArgLists == UNION {[1..n -> Args] : n \in 1..MaxInputs}

\* the image of a single-binary run over one packed priority
PrioElf(priority, ec) ==
  NoteElf(64, FALSE, <<LOG("a.c", 20, "f", "h1", ec, "m1", priority)>>)

\* file offsets of the layouts explored (all multiples of the word sizes)
DiscOffsets == {0, 8, 16}
DiscEnds == {0, 8, 16, 24}
DiscSizes == {0, 8, 16}

\* every slot offset of the image points to a record that carries the offset
DiscPtrs == [a \in {4 * k : k \in 0..12} |-> LOG("a.c", a, "f", "h1", 0, "m1", 6)]

DiscNotes(width, bigendian) ==
  {NoNote} \cup
  {[found |-> TRUE, start |-> ns, mem |-> NoteMem(st, en, width, bigendian)] :
     ns \in {0, 8}, st \in DiscOffsets, en \in DiscEnds}

DiscSections ==
  {NoSection} \cup
  {[found |-> TRUE, start |-> st, size |-> sz] : st \in {0, 16}, sz \in DiscSizes}

\* the file system of the run: env names the batch file system, or the one
\* image of a single-binary run
fs ==
  CASE env.kind = "batch" -> FS
    [] env.kind = "prio" -> Path("zebra", "") :> PrioElf(env.priority, env.ec)
    [] env.kind = "disc" ->
         Path("zebra", "") :>
           [hdr |-> ELFMAG, elfclass |-> env.elfclass, bigendian |-> env.bigendian,
            note |-> env.note, xref_array |-> env.xref_array, ptrs |-> DiscPtrs]

----------------------------------------------------------------------------
(* main(), one action per stage.  The lint pass (sorted(xrelfo.check(args))) *)
(* only writes to stderr and is left out; self._xrefs is xrefs.              *)

\* variant of LoadNext that leaves the loop at the first failing input
LoadNext_stop ==
  /\ pc = "load"
  /\ LET r == load_file(fs, binaries[idx + 1], xrelfo, xrefs)
     IN /\ xrelfo' = r.store
        /\ xrefs' = r.xrefs
        /\ errors' = IF r.ok THEN errors ELSE errors + 1
        /\ pc' = IF idx + 1 = Len(binaries) \/ ~r.ok THEN "check" ELSE "load"
  /\ idx' = idx + 1
  /\ UNCHANGED <<env, binaries, printed, counts, outbyfile, written, exitcode>>

\* main, for fn in args.binaries: try load_file, except: errors += 1
LoadNext ==
  /\ pc = "load"
  /\ LET r == load_file(fs, binaries[idx + 1], xrelfo, xrefs)
     IN /\ xrelfo' = r.store
        /\ xrefs' = r.xrefs
        /\ errors' = IF r.ok THEN errors ELSE errors + 1
  /\ idx' = idx + 1
  /\ pc' = IF idx + 1 = Len(binaries) THEN "check" ELSE "load"
  /\ UNCHANGED <<env, binaries, printed, counts, outbyfile, written, exitcode>>

\* main, the format-string check over refs (what it prints, and counts)
CheckRefs ==
  /\ pc = "check"
  /\ printed' = check_refs(xrelfo.refs)
  /\ counts' = [k \in DOMAIN xrelfo.refs.val |-> Len(xrelfo.refs.val[k])]
  /\ pc' = "byfile"
  /\ UNCHANGED <<env, binaries, idx, xrelfo, xrefs, errors, outbyfile, written, exitcode>>

\* main, the by-file view
BuildByFile ==
  /\ pc = "byfile"
  /\ outbyfile' = build_outbyfile(xrelfo.refs)
  /\ pc' = "exit"
  /\ UNCHANGED <<env, binaries, idx, xrelfo, xrefs, errors, printed, counts, written, exitcode>>

\* main, if errors: sys.exit(1), else the outputs asked for with -o and
\* --out-by-file are written and the process ends with status 0
Finish ==
  /\ pc = "exit"
  /\ \E output \in BOOLEAN, out_by_file \in BOOLEAN :
       IF errors # 0
       THEN /\ exitcode' = 1
            /\ written' = written
       ELSE /\ exitcode' = 0
            /\ written' = [k \in (IF output THEN {"output"} ELSE {})
                                 \cup (IF out_by_file THEN {"out_by_file"} ELSE {}) |->
                             IF k = "output" THEN json_dump(xrelfo) ELSE outbyfile]
  /\ pc' = "done"
  /\ UNCHANGED <<env, binaries, idx, xrelfo, xrefs, errors, printed, counts, outbyfile>>

Next == LoadNext \/ CheckRefs \/ BuildByFile \/ Finish

\* the state main() starts from, for the command line and environment given
Start(e, args) ==
  /\ env = e
  /\ binaries = args
  /\ idx = 0
  /\ xrelfo = EmptyStore
  /\ xrefs = <<>>
  /\ errors = 0
  /\ pc = "load"
  /\ printed = <<>>
  /\ counts = EmptyMap
  /\ outbyfile = EmptyMap
  /\ written = EmptyMap
  /\ exitcode = -1

Init == \E args \in ArgLists : Start([kind |-> "batch"], args)

Spec == Init /\ [][Next]_vars

----------------------------------------------------------------------------
(* Single-binary runs over a wide range of packed priorities (SpecPrio) and *)
(* of table layouts (SpecDisc).                                             *)

InitPrio ==
  \E priority \in 0..MaxPriority, ec \in {0, 5} :
    Start([kind |-> "prio", priority |-> priority, ec |-> ec], <<Path("zebra", "")>>)

SpecPrio == InitPrio /\ [][Next]_vars

InitDisc ==
  \E elfclass \in {32, 64}, bigendian \in BOOLEAN :
    \E note \in DiscNotes(Width(elfclass), bigendian), section \in DiscSections :
      Start([kind |-> "disc", elfclass |-> elfclass, bigendian |-> bigendian,
             note |-> note, xref_array |-> section],
            <<Path("zebra", "")>>)

SpecDisc == InitDisc /\ [][Next]_vars

----------------------------------------------------------------------------
(* Properties. *)

Range(seq) == {seq[i] : i \in 1..Len(seq)}

\* the merge of the source named by argument a into store S
Merge(S, a) == load_file(fs, a, S, <<>>).store

\* the argument on its own fails to load
FailsAlone(a) == ~load_file(fs, a, EmptyStore, <<>>).ok

\* the (identity, occurrence) pairs of a store
Occurrences(S) ==
  UNION {{<<u, S.refs.val[u][i]>> : i \in 1..Len(S.refs.val[u])} : u \in DOMAIN S.refs.val}

\* snapshots: those of the file system and what a run over one argument
\* would write
WrittenDocs ==
  {OldSnapshot, EditedSnapshot, [cli |-> EmptyMap]}
  \cup {json_dump(load_file(FS, a, EmptyStore, <<>>).store) : a \in Args}

\* those, and what the current store would be written as
SnapshotDocs == WrittenDocs \cup {json_dump(xrelfo)}

\* C1: merging a snapshot a second time leaves the whole store (refs and
\* cli) as the first merge left it, for every reachable store and snapshot.
C1_Idempotent ==
  \A A \in SnapshotDocs :
    LET once == load_json(A, xrelfo).store
    IN load_json(A, once).store = once

\* a store built by loads that some snapshot both extends and partly repeats
C1_Witness ==
  /\ idx > 0
  /\ xrelfo.refs.keys # <<>>
  /\ \E A \in SnapshotDocs :
       /\ "refs" \in DOMAIN A
       /\ load_json(A, xrelfo).store # xrelfo
       /\ \E u \in DOMAIN A.refs.val \cap DOMAIN xrelfo.refs.val :
            Range(A.refs.val[u]) \cap Range(xrelfo.refs.val[u]) # {}

\* C2 as stated: merging A then B and merging B then A give equal refs
\* mappings, with the same ordered occurrence sequence under each identity
\* (stated, like the amended form below, where the loads have ended).
C2_Commutative ==
  pc = "check" =>
    \A A \in Args, B \in Args :
      Merge(Merge(xrelfo, A), B).refs.val = Merge(Merge(xrelfo, B), A).refs.val

SameOccurrenceSets(r1, r2) ==
  /\ DOMAIN r1.val = DOMAIN r2.val
  /\ \A u \in DOMAIN r1.val : Range(r1.val[u]) = Range(r2.val[u])

\* C2 amended: merging A then B and merging B then A give refs mappings with
\* the same identities and, under each identity, the same set of distinct
\* occurrence descriptors (their order and multiplicity may differ).  It is
\* stated where the loads have ended: every store the loads can build is the
\* store of some run at that point.
C2_CommutativeAsSets ==
  pc = "check" =>
    LET first == [a \in Args |-> Merge(xrelfo, a)]
    IN \A i \in 1..Len(ArgSeq), j \in 1..Len(ArgSeq) :
         i < j =>
           SameOccurrenceSets(Merge(first[ArgSeq[i]], ArgSeq[j]).refs,
                              Merge(first[ArgSeq[j]], ArgSeq[i]).refs)

\* a store built by loads and two sources that both load and whose two merge
\* orders give different lists under some identity
C2_Witness ==
  /\ pc = "check"
  /\ xrelfo.refs.keys # <<>>
  /\ \E A \in Args, B \in Args :
       /\ ~FailsAlone(A) /\ ~FailsAlone(B)
       /\ Merge(Merge(xrelfo, A), B).refs.val # Merge(Merge(xrelfo, B), A).refs.val

\* the argument is an ELF image
IsBinary(a) == LaTarget(a) \in DOMAIN fs /\ fs[LaTarget(a)].hdr = ELFMAG

\* the store after writing S as the primary output and loading that file
\* into an empty store
Reload(S) ==
  load_file(Path("out", "json") :> JsonFile(json_dump(S)), Path("out", "json"),
            EmptyStore, <<>>).store

\* dict equality: the order of the keys does not count
StoreEq(S1, S2) ==
  /\ DOMAIN S1 = DOMAIN S2
  /\ S1.refs.val = S2.refs.val
  /\ "cli" \in DOMAIN S1 => S1.cli = S2.cli

\* C3: a store built by loading binaries, written as the primary output and
\* reloaded through load_file / load_json into an empty store, is equal to
\* the original store, cli included.
C3_RoundTrip ==
  (\A i \in 1..idx : IsBinary(binaries[i])) => StoreEq(Reload(xrelfo), xrelfo)

CmdNames == {"show version"}

NDefun(name) ==
  Cardinality({i \in 1..Len(xrefs) : xrefs[i].typ = XREFT_DEFUN /\ xrefs[i].name = name})

NInstall(name) ==
  Cardinality({i \in 1..Len(xrefs) :
                 xrefs[i].typ = XREFT_INSTALL_ELEMENT /\ xrefs[i].cmd_element.name = name})

\* C4: whatever the order in which the definition and the installations of
\* a command were applied, cli[name] holds defun and a nodes list with one
\* entry per installation applied.
C4_AnyOrder ==
  \A name \in CmdNames :
    NDefun(name) = 1 =>
      /\ "cli" \in DOMAIN xrelfo
      /\ name \in DOMAIN xrelfo.cli
      /\ "defun" \in DOMAIN xrelfo.cli[name]
      /\ "nodes" \in DOMAIN xrelfo.cli[name]
      /\ Len(xrelfo.cli[name].nodes) = NInstall(name)

\* the positions (identity, index) of the occurrences in refs
Positions ==
  UNION {{<<u, i>> : i \in 1..Len(xrelfo.refs.val[u])} : u \in DOMAIN xrelfo.refs.val}

OccAt(p) == xrelfo.refs.val[p[1]][p[2]]

\* how often descriptor d (without file) stands in refs for file f
CountInRefs(f, d) ==
  Cardinality({p \in Positions : OccAt(p).file = f /\ MapDel(OccAt(p), "file") = d})

\* how often descriptor d stands in the by-file list of f
CountInView(f, d) ==
  Cardinality({i \in 1..Len(outbyfile[f]) : outbyfile[f][i] = d})

\* C5: once the by-file view is built, every occurrence of refs stands in it
\* exactly once, under its file and without its file field, nothing else
\* stands in it, and every per-file list is in ascending line order.
C5_ByFile ==
  pc \in {"exit", "done"} =>
    /\ DOMAIN outbyfile = {OccAt(p).file : p \in Positions}
    /\ \A f \in DOMAIN outbyfile :
         /\ \A d \in Range(outbyfile[f]) \cup {MapDel(OccAt(p), "file") : p \in Positions} :
              CountInView(f, d) = CountInRefs(f, d)
         /\ \A i \in 1..Len(outbyfile[f]), j \in 1..Len(outbyfile[f]) :
              i < j => outbyfile[f][i].line <= outbyfile[f][j].line

\* a view of a file whose occurrences were not met in line order
C5_Witness ==
  /\ pc = "exit"
  /\ \E f \in DOMAIN outbyfile :
       /\ Len(outbyfile[f]) >= 3
       /\ build_outbyfile_unsorted(xrelfo.refs)[f] # outbyfile[f]

\* C6: when the process has ended, every input was attempted, every input
\* that loads on its own has its occurrences in the store whatever failed
\* before it, and the exit status is non-zero exactly when some input failed.
C6_Isolation ==
  pc = "done" =>
    /\ idx = Len(binaries)
    /\ exitcode \in {0, 1}
    /\ exitcode # 0 <=> \E i \in 1..Len(binaries) : FailsAlone(binaries[i])
    /\ \A i \in 1..Len(binaries) :
         ~FailsAlone(binaries[i]) =>
           Occurrences(Merge(EmptyStore, binaries[i])) \subseteq Occurrences(xrelfo)

\* an ended run in which a failing input came before one that contributes
C6_Witness ==
  /\ pc = "done"
  /\ exitcode = 1
  /\ \E i \in 1..Len(binaries), j \in 1..Len(binaries) :
       /\ i < j
       /\ FailsAlone(binaries[i])
       /\ ~FailsAlone(binaries[j])
       /\ Occurrences(Merge(EmptyStore, binaries[j])) # {}

\* the offsets lo, lo + width, ... of the whole slots of [lo, hi)
SlotLines(lo, hi, width) ==
  [i \in 1..(IF hi > lo THEN (hi - lo) \div width ELSE 0) |-> lo + (i - 1) * width]

XrefLines == [i \in 1..Len(xrefs) |-> xrefs[i].line]

\* C7: with the XREF note, the table read is the byte range
\* [start + note.start, end + note.start + wordsize), section or not; with
\* no note but the xref_array section, it is the section; with neither,
\* load_elf fails and the store stays empty.
C7_Discovery ==
  idx = 1 =>
    LET edf == fs[binaries[1]]
        w == IF edf.elfclass = 64 THEN 8 ELSE 4
    IN IF edf.note.found
       THEN \A st \in DiscOffsets, en \in DiscEnds :
              edf.note.mem = NoteMem(st, en, w, edf.bigendian) =>
                /\ errors = 0
                /\ XrefLines = SlotLines(st + edf.note.start, en + edf.note.start + w, w)
       ELSE IF edf.xref_array.found
       THEN /\ errors = 0
            /\ XrefLines = SlotLines(edf.xref_array.start,
                                     edf.xref_array.start + edf.xref_array.size, w)
       ELSE /\ errors = 1
            /\ xrefs = <<>>
            /\ xrelfo = EmptyStore

\* a loaded image with both note and section, whose ranges differ
C7_Witness ==
  /\ idx = 1
  /\ fs[binaries[1]].note.found
  /\ fs[binaries[1]].xref_array.found
  /\ Len(xrefs) >= 2
  /\ XrefLines # SlotLines(fs[binaries[1]].xref_array.start,
                          fs[binaries[1]].xref_array.start + fs[binaries[1]].xref_array.size,
                          Width(fs[binaries[1]].elfclass))

\* C8: the descriptor of a log message has priority equal to the low three
\* bits of the packed value, and flags listing errno exactly for bit 0x10 and
\* getaddrinfo exactly for bit 0x20, in that order, absent when neither is
\* set; 0x16 gives priority 6 and flags [errno].
C8_Priority ==
  \A i \in 1..Len(xrefs) :
    xrefs[i].typ = XREFT_LOGMSG =>
      LET p == xrefs[i].priority
          e == (p \div 16) % 2 = 1
          g == (p \div 32) % 2 = 1
      IN \E d \in Range(xrelfo.refs.val[Xrefdata_uid(xrefs[i])]) :
           /\ d.line = xrefs[i].line
           /\ d.priority \in 0..7
           /\ (p - d.priority) % 8 = 0
           /\ "flags" \in DOMAIN d <=> (e \/ g)
           /\ (e \/ g) => d.flags = (IF e THEN <<"errno">> ELSE <<>>)
                                    \o (IF g THEN <<"getaddrinfo">> ELSE <<>>)
           /\ p = 22 => (d.priority = 6 /\ d.flags = <<"errno">>)

\* the run over the record with packed priority 0x16
C8_Witness ==
  /\ pc = "done"
  /\ Len(xrefs) = 1
  /\ xrefs[1].priority = 22
  /\ \E u \in DOMAIN xrelfo.refs.val :
       /\ Len(xrelfo.refs.val[u]) = 1
       /\ xrelfo.refs.val[u][1].priority = 6
       /\ xrelfo.refs.val[u][1].flags = <<"errno">>

\* C9: no list refs[identity] holds two occurrence descriptors that are
\* equal in full content, after any sequence of binary loads and merges.
C9_NoDuplicates ==
  \A u \in DOMAIN xrelfo.refs.val :
    \A i \in 1..Len(xrelfo.refs.val[u]), j \in 1..Len(xrelfo.refs.val[u]) :
      i # j => xrelfo.refs.val[u][i] # xrelfo.refs.val[u][j]

\* C10: after the check, an identity is reported exactly when it has more
\* than one occurrence and they do not all share one format string.
C10_Reported ==
  pc \in {"byfile", "exit", "done"} =>
    \A u \in DOMAIN xrelfo.refs.val :
      InList(u, printed) <=>
        (Len(xrelfo.refs.val[u]) > 1 /\ Cardinality(FmtStrings(xrelfo.refs.val[u])) > 1)

====
